---- MODULE Spec2Model ----
(***************************************************************************)
(* A model of the Eagle Scanner GPS converters:                            *)
(*   GPS_bag_to_GNSS/bag_to_gnss.py        (bag -> GNSS, single / chunked) *)
(*   GPS_bag_to_NMEA_stream/bag_to_nmea.py (bag -> NMEA RMC)               *)
(*   RTK/rtk_to_gnss.py                    (RTK solution.pos -> GNSS)      *)
(*                                                                         *)
(* Timestamps are counted in ticks, TicksPerSec to the second (the source  *)
(* counts nanoseconds, 1e9 to the second); texts are TLA+ strings, an      *)
(* output line is the sequence of the pieces that " ".join() glues.        *)
(***************************************************************************)
EXTENDS Integers, Sequences, FiniteSets, TLC

VARIABLES
    mode,                 \* which driver runs: "chunked", "single", "nmea", "rtk"
    pc,                   \* "main", "start", "loop", "done"
    result,               \* the driver's return value: "none", "True", "False"
    input,                \* the records / lines read so far, in stored order
    chunk_duration,       \* BagToGNSSConverter.chunk_duration (seconds)
    utc_offset,           \* the host's time zone, seconds east of UTC
    message_count,        \* BagToGNSSConverter / BagToNMEAConverter .message_count
    processed_count,      \* ... .processed_count
    current_chunk_start,  \* BagToGNSSConverter.current_chunk_start (None or ticks)
    current_chunk_file,   \* BagToGNSSConverter.current_chunk_file (None or a handle)
    chunk_counter,        \* BagToGNSSConverter.chunk_counter
    output_file,          \* the handle of `with open(output_path, 'w')`, or None
    files,                \* the output files created so far: [name, lines, open]
    lines_processed,      \* convert_rtk_to_gnss: lines_processed
    lines_converted,      \* convert_rtk_to_gnss: lines_converted
    faults,               \* I/O failures the environment has injected so far
    sink_failed,          \* an open or a write of an output sink has failed
    output_dir,           \* BagToGNSSConverter.output_dir exists (mkdir was done)
    summary,              \* the totals printed at the end: <<seen, converted>>, or <<>>
    exit_status,          \* the status the process exited with, or None
    fin,                  \* the argument of the formatter applied last
    fout                  \* its result

vars == <<mode, pc, result, input, chunk_duration, utc_offset, message_count, processed_count,
          current_chunk_start, current_chunk_file, chunk_counter, output_file,
          files, lines_processed, lines_converted, faults, sink_failed,
          output_dir, summary, exit_status, fin, fout>>

(***************************************************************************)
(* Bounds and units                                                        *)
(***************************************************************************)
MaxRecs == 4            \* records of one bag
MaxLines == 3           \* lines of one RTKLIB solution file
MaxFaults == 1          \* I/O failures injected in one run
TicksPerSec == 2000     \* ticks per second (1e9 in the source)
TicksPerMs == TicksPerSec \div 1000
DegUnit == 10000000     \* a coordinate is an integer count of 1e-7 degree

None == -1              \* Python's None, for a timestamp or a file handle

(***************************************************************************)
(* Texts                                                                   *)
(***************************************************************************)
\* f"{n:0{w}d}" applied to the digits s of n >= 0: zero-padded to at least w
RECURSIVE ZeroPad(_, _)
ZeroPad(s, w) == IF Len(s) >= w THEN s ELSE ZeroPad("0" \o s, w)

\* s without its trailing "0" characters
RECURSIVE StripZeros(_)
StripZeros(s) ==
    IF Len(s) > 0 /\ SubSeq(s, Len(s), Len(s)) = "0"
    THEN StripZeros(SubSeq(s, 1, Len(s) - 1)) ELSE s

\* str(x) of a float x given as a count of 1e-7: "45.123456", "-73.987654", "0.0"
FloatStr(x) ==
    LET a == IF x < 0 THEN -x ELSE x
        frac == StripZeros(ZeroPad(ToString(a % DegUnit), 7))
    IN (IF x < 0 THEN "-" ELSE "") \o ToString(a \div DegUnit) \o "."
       \o (IF frac = "" THEN "0" ELSE frac)

\* sep.join(parts)
RECURSIVE Join(_, _)
Join(parts, sep) ==
    IF Len(parts) = 0 THEN ""
    ELSE IF Len(parts) = 1 THEN parts[1]
    ELSE parts[1] \o sep \o Join(Tail(parts), sep)

(***************************************************************************)
(* GNSSFormatter (bag_to_gnss.py)                                          *)
(***************************************************************************)
\* datetime.utcfromtimestamp(ros_timestamp).strftime("%-H:%M:%S"),
\* ros_timestamp in ticks
ros_time_to_gps_time(ros_timestamp) ==
    LET secs == ros_timestamp \div TicksPerSec
    IN ToString((secs \div 3600) % 24) \o ":"
       \o ZeroPad(ToString((secs \div 60) % 60), 2) \o ":"
       \o ZeroPad(ToString(secs % 60), 2)

\* a faulty timestamp_ns_to_ms: rounded to the nearest millisecond
BadMsRounded(timestamp_ns) == (timestamp_ns + TicksPerMs \div 2) \div TicksPerMs

\* int(timestamp_ns // 1000000)
timestamp_ns_to_ms(timestamp_ns) == timestamp_ns \div TicksPerMs

\* a faulty gnss_data: the hdop column is missing
BadGnssData(timestamp_ns, latitude, longitude, altitude, hdop, satellites_tracked, height, age, fix_quality) ==
    << ToString(timestamp_ns), latitude, longitude, altitude,
       satellites_tracked, height, age,
       ros_time_to_gps_time(timestamp_ns), fix_quality,
       ToString(timestamp_ns_to_ms(timestamp_ns)) >>

\* the list gnss_data of create_gnss_line: 11 columns
GnssData(timestamp_ns, latitude, longitude, altitude, hdop, satellites_tracked, height, age, fix_quality) ==
    << ToString(timestamp_ns), latitude, longitude, altitude, hdop,
       satellites_tracked, height, age,
       ros_time_to_gps_time(timestamp_ns), fix_quality,
       ToString(timestamp_ns_to_ms(timestamp_ns)) >>

create_gnss_line(timestamp_ns, latitude, longitude, altitude, hdop, satellites_tracked, height, age, fix_quality) ==
    Join(GnssData(timestamp_ns, latitude, longitude, altitude, hdop,
                  satellites_tracked, height, age, fix_quality), " ")

(***************************************************************************)
(* NMEAFormatter (bag_to_nmea.py).  An NMEA text is the sequence of the    *)
(* code points (ord) of its characters.                                    *)
(***************************************************************************)
Alphabet == "$*,-.0123456789ABCDEFGHIJKLMNOPQRSTUVWXYZ"
AlphabetOrd == <<36, 42, 44, 45, 46>> \o [i \in 1..10 |-> 47 + i]
               \o [i \in 1..26 |-> 64 + i]

\* ord(c) of a character c of Alphabet
Ord(c) == AlphabetOrd[CHOOSE i \in 1..Len(Alphabet) : SubSeq(Alphabet, i, i) = c]

\* the code points of the ASCII text s
Codes(s) == [i \in 1..Len(s) |-> Ord(SubSeq(s, i, i))]

\* a ^ b on naturals
RECURSIVE Xor(_, _)
Xor(a, b) ==
    IF a = 0 THEN b ELSE IF b = 0 THEN a
    ELSE ((a + b) % 2) + 2 * Xor(a \div 2, b \div 2)

\* the uppercase hexadecimal digits of n, most significant first
RECURSIVE HexDigits(_)
HexDigits(n) ==
    LET d == n % 16
        c == IF d < 10 THEN 48 + d ELSE 55 + d
    IN IF n < 16 THEN <<c>> ELSE Append(HexDigits(n \div 16), c)

\* f"{n:02X}"
Hex02(n) == IF n < 16 THEN <<48>> \o HexDigits(n) ELSE HexDigits(n)

\* checksum ^= ord(char) over s[from..to], from 0 (^ is associative: the
\* range is folded by halves)
RECURSIVE XorRange(_, _, _)
XorRange(s, from, to) ==
    IF from > to THEN 0
    ELSE IF from = to THEN Xor(0, s[from])
    ELSE LET mid == (from + to) \div 2
         IN Xor(XorRange(s, from, mid), XorRange(s, mid + 1, to))

\* calculate_checksum(sentence)
calculate_checksum(sentence) ==
    LET start_idx == IF Len(sentence) > 0 /\ sentence[1] = 36 THEN 1 ELSE 0
    IN Hex02(XorRange(sentence, start_idx + 1, Len(sentence)))

Abs(x) == IF x < 0 THEN -x ELSE x

\* a faulty decimal_to_dmm: the split of the signed value
BadDmmSigned(decimal_degrees) ==
    LET degrees == decimal_degrees \div DegUnit
    IN [degrees |-> degrees,
        minutes |-> (decimal_degrees - degrees * DegUnit) * 60]

\* decimal_to_dmm: degrees, and minutes as a count of 1e-7 minute
decimal_to_dmm(decimal_degrees) ==
    LET degrees == Abs(decimal_degrees) \div DegUnit
    IN [degrees |-> degrees,
        minutes |-> (Abs(decimal_degrees) - degrees * DegUnit) * 60]

\* f"{minutes:07.4f}": rounded to 4 decimals (a tie to the even digit),
\* zero-padded to width 7
Fmt07_4f(minutes) ==
    LET q == minutes \div 1000
        r == minutes % 1000
        m4 == IF r > 500 \/ (r = 500 /\ q % 2 = 1) THEN q + 1 ELSE q
    IN Codes(ZeroPad(ToString(m4 \div 10000), 2) \o "."
             \o ZeroPad(ToString(m4 % 10000), 4))

\* format_latitude: (text, direction)
format_latitude(lat_decimal) ==
    LET dm == decimal_to_dmm(lat_decimal)
    IN [text |-> Codes(ZeroPad(ToString(dm.degrees), 2)) \o Fmt07_4f(dm.minutes),
        direction |-> IF lat_decimal >= 0 THEN Codes("N") ELSE Codes("S")]

\* format_longitude: (text, direction)
format_longitude(lon_decimal) ==
    LET dm == decimal_to_dmm(lon_decimal)
    IN [text |-> Codes(ZeroPad(ToString(dm.degrees), 3)) \o Fmt07_4f(dm.minutes),
        direction |-> IF lon_decimal >= 0 THEN Codes("E") ELSE Codes("W")]

\* ros_time_to_nmea: HHMMSS.SS and DDMMYY of a time in ticks (the model's
\* times lie in January 1970)
ros_time_to_nmea(ros_timestamp) ==
    LET secs == ros_timestamp \div TicksPerSec
        hundredths == ((ros_timestamp % TicksPerSec) * 100) \div TicksPerSec
        day == 1 + (secs \div 86400)
    IN [time_str |-> Codes(ZeroPad(ToString((secs \div 3600) % 24), 2)
                           \o ZeroPad(ToString((secs \div 60) % 60), 2)
                           \o ZeroPad(ToString(secs % 60), 2) \o "."
                           \o ZeroPad(ToString(hundredths), 2)),
        date_str |-> Codes(ZeroPad(ToString(day), 2) \o "0170")]

\* f"{x:.1f}" of x >= 0 counted in tenths
Fmt_1f(x) == Codes(ToString(x \div 10) \o "." \o ToString(x % 10))

\* ",".join(parts) on code point sequences
RECURSIVE JoinCodes(_)
JoinCodes(parts) ==
    IF Len(parts) = 0 THEN <<>>
    ELSE IF Len(parts) = 1 THEN parts[1]
    ELSE parts[1] \o <<44>> \o JoinCodes(Tail(parts))

\* create_rmc_sentence; status is a sequence of code points
create_rmc_sentence(timestamp, latitude, longitude, speed, course, status) ==
    LET t == ros_time_to_nmea(timestamp)
        lat == format_latitude(latitude)
        lon == format_longitude(longitude)
        sentence_data == << Codes("GPRMC"), t.time_str, status, lat.text,
                            lat.direction, lon.text, lon.direction,
                            Fmt_1f(speed), Fmt_1f(course), t.date_str, <<>>, <<>> >>
        sentence == <<36>> \o JoinCodes(sentence_data)
    IN sentence \o <<42>> \o calculate_checksum(sentence)

(***************************************************************************)
(* BagToGNSSConverter (bag_to_gnss.py)                                     *)
(***************************************************************************)
\* a faulty _extract_and_format_gnss_data: only status 'V' gives quality 0
BadExtractQuality(gps_data, timestamp) ==
    create_gnss_line(timestamp,
                     FloatStr(gps_data.latitude), FloatStr(gps_data.longitude),
                     "nan", "nan", "nan", "nan", "nan",
                     IF gps_data.status = "V" THEN "0" ELSE "1")

\* a faulty _extract_and_format_gnss_data: the quality column counts the
\* lines written so far
BadExtractCounts(gps_data, timestamp) ==
    create_gnss_line(timestamp,
                     FloatStr(gps_data.latitude), FloatStr(gps_data.longitude),
                     "nan", "nan", "nan", "nan", "nan",
                     ToString(processed_count))

\* _extract_and_format_gnss_data: the GNSS line of a parsed message
extract_and_format_gnss_data(gps_data, timestamp) ==
    create_gnss_line(timestamp,
                     FloatStr(gps_data.latitude), FloatStr(gps_data.longitude),
                     "nan", "nan", "nan", "nan", "nan",
                     IF gps_data.status = "A" THEN "1" ELSE "0")

\* a faulty _should_start_new_chunk: >= in place of >
BadShouldStartGE(chunk_start, timestamp, duration) ==
    IF chunk_start = None THEN TRUE
    ELSE (timestamp - chunk_start) >= duration * TicksPerSec

\* _should_start_new_chunk: timestamp / 1e9 - chunk_start / 1e9 > chunk_duration,
\* on exact ticks
should_start_new_chunk(chunk_start, timestamp, duration) ==
    IF chunk_start = None THEN TRUE
    ELSE (timestamp - chunk_start) > duration * TicksPerSec

\* a faulty chunk filename: the index is not padded
BadFilenameNoPad(counter) == "gnss" \o ToString(counter) \o ".gnss"

\* f"gnss{self.chunk_counter:04d}.gnss"
chunk_filename(counter) == "gnss" \o ZeroPad(ToString(counter), 4) \o ".gnss"

\* file.close(): closing a closed file changes nothing
CloseFile(fs, h) ==
    IF h = None THEN fs ELSE [fs EXCEPT ![h].open = FALSE]

\* open(path, 'w'): a new, empty, open file
OpenFile(fs, name) == Append(fs, [name |-> name, lines |-> <<>>, open |-> TRUE])

\* a faulty write: the line goes in front of the lines of the file
BadWriteInFront(fs, h, line) == [fs EXCEPT ![h].lines = <<line>> \o @]

\* file.write(line + "\n") on an open file
WriteFile(fs, h, line) == [fs EXCEPT ![h].lines = Append(@, line)]

\* The chunk state: the fields of the converter that _start_new_chunk touches
ChunkState == [files |-> files, file |-> current_chunk_file,
               start |-> current_chunk_start, counter |-> chunk_counter]

\* a faulty _start_new_chunk: the previous chunk file is not closed
BadStartNoClose(st, timestamp, openFails) ==
    IF openFails
    THEN [files |-> st.files, file |-> st.file, start |-> st.start,
          counter |-> st.counter, raised |-> TRUE]
    ELSE [files |-> OpenFile(st.files, chunk_filename(st.counter)),
          file |-> Len(st.files) + 1, start |-> timestamp,
          counter |-> st.counter + 1, raised |-> FALSE]

\* _start_new_chunk; raised = open() failed, after the old chunk was closed
start_new_chunk(st, timestamp, openFails) ==
    LET closed == CloseFile(st.files, st.file)
    IN IF openFails
       THEN [files |-> closed, file |-> st.file, start |-> st.start,
             counter |-> st.counter, raised |-> TRUE]
       ELSE [files |-> OpenFile(closed, chunk_filename(st.counter)),
             file |-> Len(closed) + 1, start |-> timestamp,
             counter |-> st.counter + 1, raised |-> FALSE]

\* a faulty _close_current_chunk: the handle is dropped, the file not closed
BadCloseForgets(fs, h) == [files |-> fs, file |-> None]

\* _close_current_chunk: the files and the handle afterwards
close_current_chunk(fs, h) ==
    IF h = None THEN [files |-> fs, file |-> None]
    ELSE [files |-> CloseFile(fs, h), file |-> None]

(***************************************************************************)
(* rtk_to_gnss.py.  A line of solution.pos is given by whether it starts   *)
(* with "%" and by the tokens line.strip().split() finds in it.            *)
(***************************************************************************)
DigitChars == "0123456789"
IsDigit(c) == \E i \in 1..10 : SubSeq(DigitChars, i, i) = c
DigitVal(c) == (CHOOSE i \in 1..10 : SubSeq(DigitChars, i, i) = c) - 1
Char(s, i) == SubSeq(s, i, i)

\* s is one or more decimal digits
AllDigits(s) == Len(s) > 0 /\ \A i \in 1..Len(s) : IsDigit(Char(s, i))

\* the number the digits s write
RECURSIVE DigitsVal(_, _)
DigitsVal(s, n) ==
    IF n = 0 THEN 0 ELSE 10 * DigitsVal(s, n - 1) + DigitVal(Char(s, n))

Unsigned(s) ==
    IF Len(s) > 0 /\ Char(s, 1) \in {"-", "+"} THEN SubSeq(s, 2, Len(s)) ELSE s
Signum(s) == IF Len(s) > 0 /\ Char(s, 1) = "-" THEN -1 ELSE 1

\* int(s): [ok, val]; the decimal integers the model's lines use
ParseInt(s) ==
    LET u == Unsigned(s)
    IN IF AllDigits(u) /\ Len(u) <= 9
       THEN [ok |-> TRUE, val |-> Signum(s) * DigitsVal(u, Len(u))]
       ELSE [ok |-> FALSE, val |-> 0]

\* the first place of c in s from i on, Len(s) + 1 when there is none
RECURSIVE FindChar(_, _, _)
FindChar(s, c, i) ==
    IF i > Len(s) THEN Len(s) + 1
    ELSE IF Char(s, i) = c THEN i ELSE FindChar(s, c, i + 1)

\* float(s): [ok, val], val counted in 1e-7; plain decimals up to 200 with
\* up to 7 decimals (the form the model's lines use); any other text is
\* refused
ParseFloat(s) ==
    LET u == Unsigned(s)
        dot == FindChar(u, ".", 1)
        ip == SubSeq(u, 1, dot - 1)
        fp == SubSeq(u, dot + 1, Len(u))
        fp7 == SubSeq(fp \o "0000000", 1, 7)
    IN IF /\ AllDigits(ip) /\ Len(ip) <= 3 /\ DigitsVal(ip, Len(ip)) <= 200
          /\ (fp = "" \/ AllDigits(fp)) /\ Len(fp) <= 7
       THEN [ok |-> TRUE,
             val |-> Signum(s) * (DigitsVal(ip, Len(ip)) * DegUnit + DigitsVal(fp7, 7))]
       ELSE [ok |-> FALSE, val |-> 0]

\* days from 1970-01-01 to the civil date y-m-d
DaysFromCivil(y, m, d) ==
    LET yy == IF m <= 2 THEN y - 1 ELSE y
        era == yy \div 400
        yoe == yy - era * 400
        mp == (m + 9) % 12
        doy == (153 * mp + 2) \div 5 + d - 1
        doe == yoe * 365 + yoe \div 4 - yoe \div 100 + doy
    IN era * 146097 + doe - 719468

DaysInMonth(y, m) ==
    IF m = 2 THEN (IF (y % 4 = 0 /\ y % 100 # 0) \/ y % 400 = 0 THEN 29 ELSE 28)
    ELSE IF m \in {4, 6, 9, 11} THEN 30 ELSE 31

\* datetime.strptime(gpst_str, "%Y/%m/%d %H:%M:%S.%f"): the fields, for the
\* zero-padded form YYYY/MM/DD HH:MM:SS.f (1 to 6 decimals); ok = FALSE is
\* ValueError
Strptime(gpst_str) ==
    LET n == Len(gpst_str)
        num(i, j) == DigitsVal(SubSeq(gpst_str, i, j), j - i + 1)
        shaped == /\ n >= 21 /\ n <= 26
                  /\ \A i \in {1, 2, 3, 4, 6, 7, 9, 10, 12, 13, 15, 16, 18, 19} \cup (21..n) :
                        IsDigit(Char(gpst_str, i))
                  /\ Char(gpst_str, 5) = "/" /\ Char(gpst_str, 8) = "/"
                  /\ Char(gpst_str, 11) = " "
                  /\ Char(gpst_str, 14) = ":" /\ Char(gpst_str, 17) = ":"
                  /\ Char(gpst_str, 20) = "."
        frac == SubSeq(gpst_str, 21, n)
        micro == DigitsVal(frac, Len(frac))
                 * (CASE Len(frac) = 1 -> 100000 [] Len(frac) = 2 -> 10000
                      [] Len(frac) = 3 -> 1000 [] Len(frac) = 4 -> 100
                      [] Len(frac) = 5 -> 10 [] OTHER -> 1)
    IN IF ~shaped THEN [ok |-> FALSE]
       ELSE LET y == num(1, 4)
                mo == num(6, 7)
                d == num(9, 10)
                h == num(12, 13)
                mi == num(15, 16)
                sec == num(18, 19)
            IN IF /\ y >= 1 /\ mo \in 1..12 /\ d >= 1 /\ d <= DaysInMonth(y, mo)
                  /\ h <= 23 /\ mi <= 59 /\ sec <= 61
               THEN [ok |-> TRUE, year |-> y, month |-> mo, day |-> d, hour |-> h,
                     minute |-> mi, second |-> sec, microsecond |-> micro]
               ELSE [ok |-> FALSE]

\* parse_gpst_timestamp with the host at offset seconds east of UTC:
\* dt.timestamp() reads the naive dt as local time.  nanoseconds and
\* milliseconds are given as their decimal text (seconds since 1970 > 0).
parse_gpst_timestamp(gpst_str, offset) ==
    LET dt == Strptime(gpst_str)
    IN IF ~dt.ok THEN [ok |-> FALSE, nanoseconds |-> "", milliseconds |-> "",
                       time_str |-> ""]
       ELSE LET secs == DaysFromCivil(dt.year, dt.month, dt.day) * 86400
                        + dt.hour * 3600 + dt.minute * 60 + dt.second - offset
            IN [ok |-> TRUE,
                nanoseconds |-> ToString(secs) \o ZeroPad(ToString(dt.microsecond), 6)
                                \o "000",
                milliseconds |-> ToString(secs)
                                 \o ZeroPad(ToString(dt.microsecond \div 1000), 3),
                time_str |-> ZeroPad(ToString(dt.hour), 2) \o ":"
                             \o ZeroPad(ToString(dt.minute), 2) \o ":"
                             \o ZeroPad(ToString(dt.second), 2)]

\* a faulty parse_solution_line that is content with 7 tokens
BadParseSevenTokens(fields) ==
    IF Len(fields) < 7 THEN [ok |-> FALSE]
    ELSE LET lat == ParseFloat(fields[3])
             lon == ParseFloat(fields[4])
             hgt == ParseFloat(fields[5])
             q == ParseInt(fields[6])
             ns == ParseInt(fields[7])
             age == IF Len(fields) > 12 THEN ParseFloat(fields[13])
                    ELSE [ok |-> TRUE, val |-> 0]
         IN IF lat.ok /\ lon.ok /\ hgt.ok /\ q.ok /\ ns.ok /\ age.ok
            THEN [ok |-> TRUE, gpst |-> fields[1] \o " " \o fields[2],
                  latitude |-> lat.val, longitude |-> lon.val, height |-> hgt.val,
                  quality |-> q.val, satellites |-> ns.val, age |-> age.val]
            ELSE [ok |-> FALSE]

\* parse_solution_line: the dict, or ok = FALSE for None
parse_solution_line(fields) ==
    IF Len(fields) < 8 THEN [ok |-> FALSE]
    ELSE LET lat == ParseFloat(fields[3])
             lon == ParseFloat(fields[4])
             hgt == ParseFloat(fields[5])
             q == ParseInt(fields[6])
             ns == ParseInt(fields[7])
             age == IF Len(fields) > 12 THEN ParseFloat(fields[13])
                    ELSE [ok |-> TRUE, val |-> 0]
         IN IF lat.ok /\ lon.ok /\ hgt.ok /\ q.ok /\ ns.ok /\ age.ok
            THEN [ok |-> TRUE, gpst |-> fields[1] \o " " \o fields[2],
                  latitude |-> lat.val, longitude |-> lon.val, height |-> hgt.val,
                  quality |-> q.val, satellites |-> ns.val, age |-> age.val]
            ELSE [ok |-> FALSE]

\* the list gnss_line of convert_to_gnss_format
RtkGnssData(data, stamp) ==
    << stamp.nanoseconds, FloatStr(data.latitude), FloatStr(data.longitude),
       FloatStr(data.height), "nan", ToString(data.satellites), "nan",
       FloatStr(data.age), stamp.time_str, ToString(data.quality),
       stamp.milliseconds >>

\* convert_to_gnss_format: [ok, text]; ok = FALSE for None
convert_to_gnss_format(data, offset) ==
    LET stamp == parse_gpst_timestamp(data.gpst, offset)
    IN IF ~stamp.ok THEN [ok |-> FALSE, text |-> ""]
       ELSE [ok |-> TRUE, text |-> Join(RtkGnssData(data, stamp), " ")]

(***************************************************************************)
(* The input of the bag converters: (connection.topic, timestamp, rawdata) *)
(* records; rawdata is given by what parse_custom_gps_message makes of it. *)
(***************************************************************************)
Sec(n) == n * TicksPerSec

\* container timestamps: 0 s, 5 s, 25 s, 25.0005 s, 26 s
Stamps == {Sec(0), Sec(5), Sec(25), Sec(25) + 1, Sec(26)}

\* rawdata as the 13-field reader of parse_custom_gps_message sees it:
\* ok = every field could be read; lat / lon count 1e-7 degree, speed and
\* course count tenths
Malformed == [ok |-> FALSE, status |-> "", lat |-> 0, n_indicator |-> "",
              lon |-> 0, e_indicator |-> "", speed |-> 0, course |-> 0]

\* lat 45.123456, lon -73.987654, 1.5 knots, course 90.0, no indicators
RawA == [ok |-> TRUE, status |-> "A", lat |-> 451234560, n_indicator |-> "",
         lon |-> -739876540, e_indicator |-> "", speed |-> 15, course |-> 900]

RawMsgs == {Malformed, RawA}

\* a fix at every stamp, one record that does not decode, one of another topic
BagRecords ==
    {[topic |-> "/GPSRMC", timestamp |-> t, rawdata |-> RawA] : t \in Stamps}
    \cup {[topic |-> "/GPSRMC", timestamp |-> Sec(5), rawdata |-> Malformed]}
    \cup {[topic |-> "/other", timestamp |-> Sec(5), rawdata |-> Malformed]}

\* the dict parse_custom_gps_message returns; parsed = FALSE stands for None
GpsData(parsed, status, latitude, longitude, speed, course) ==
    [parsed |-> parsed, status |-> status, latitude |-> latitude,
     longitude |-> longitude, speed |-> speed, course |-> course]

\* BagToGNSSConverter.parse_custom_gps_message: the direction indicators
\* are read and not applied (lines 151-159 are comments)
gnss_parse_custom_gps_message(rawdata) ==
    IF ~rawdata.ok THEN GpsData(FALSE, "", 0, 0, 0, 0)
    ELSE GpsData(TRUE, rawdata.status, rawdata.lat, rawdata.lon,
                 rawdata.speed, rawdata.course)

\* BagToNMEAConverter.parse_custom_gps_message: the direction indicators
\* flip the sign (lines 149-153)
nmea_parse_custom_gps_message(rawdata) ==
    IF ~rawdata.ok THEN GpsData(FALSE, "", 0, 0, 0, 0)
    ELSE GpsData(TRUE, rawdata.status,
                 IF rawdata.n_indicator = "S" THEN -rawdata.lat ELSE rawdata.lat,
                 IF rawdata.e_indicator = "W" THEN -rawdata.lon ELSE rawdata.lon,
                 rawdata.speed, rawdata.course)

\* BagToNMEAConverter._extract_and_format_gps_data
extract_and_format_gps_data(gps_data, timestamp) ==
    create_rmc_sentence(timestamp, gps_data.latitude, gps_data.longitude,
                        gps_data.speed, gps_data.course, Codes(gps_data.status))

\* the records of a single-file run
OneFileRecords == {r \in BagRecords : r.timestamp \in {Sec(5), Sec(26)}}

ChunkDurations == {20, 0, -20}

\* a faulty loop body: the fix that opens a chunk is not written
BadChunkedBodySkipsOpener(st, rec, duration, openFails, writeFails) ==
    LET same == [files |-> st.files, file |-> st.file, start |-> st.start,
                 counter |-> st.counter, wrote |-> FALSE, failed |-> FALSE]
        msg == gnss_parse_custom_gps_message(rec.rawdata)
    IN IF rec.topic # "/GPSRMC" \/ ~msg.parsed THEN same
       ELSE
         LET starts == should_start_new_chunk(st.start, rec.timestamp, duration)
             s1 == IF starts THEN start_new_chunk(st, rec.timestamp, openFails)
                   ELSE [files |-> st.files, file |-> st.file, start |-> st.start,
                         counter |-> st.counter, raised |-> FALSE]
             gnss_line == extract_and_format_gnss_data(msg, rec.timestamp)
             writable == s1.files[s1.file].open /\ ~writeFails
         IN IF s1.raised \/ ~writable
            THEN [files |-> s1.files, file |-> s1.file, start |-> s1.start,
                  counter |-> s1.counter, wrote |-> FALSE, failed |-> TRUE]
            ELSE IF starts
            THEN [files |-> s1.files, file |-> s1.file, start |-> s1.start,
                  counter |-> s1.counter, wrote |-> FALSE, failed |-> FALSE]
            ELSE [files |-> WriteFile(s1.files, s1.file, gnss_line),
                  file |-> s1.file, start |-> s1.start, counter |-> s1.counter,
                  wrote |-> TRUE, failed |-> FALSE]

(***************************************************************************)
(* _convert_to_gnss_chunked, lines 367-394: the body of the loop for one   *)
(* record.  openFails / writeFails: the environment makes open() / write() *)
(* raise.  Every exception raised in the body is caught at line 392.       *)
(***************************************************************************)
chunked_body(st, rec, duration, openFails, writeFails) ==
    LET same == [files |-> st.files, file |-> st.file, start |-> st.start,
                 counter |-> st.counter, wrote |-> FALSE, failed |-> FALSE]
        msg == gnss_parse_custom_gps_message(rec.rawdata)
    IN IF rec.topic # "/GPSRMC" \/ ~msg.parsed THEN same
       ELSE
         LET starts == should_start_new_chunk(st.start, rec.timestamp, duration)
             s1 == IF starts THEN start_new_chunk(st, rec.timestamp, openFails)
                   ELSE [files |-> st.files, file |-> st.file, start |-> st.start,
                         counter |-> st.counter, raised |-> FALSE]
             gnss_line == extract_and_format_gnss_data(msg, rec.timestamp)
             \* write() raises on a closed file (ValueError) or when it fails
             writable == s1.files[s1.file].open /\ ~writeFails
         IN IF s1.raised
            THEN [files |-> s1.files, file |-> s1.file, start |-> s1.start,
                  counter |-> s1.counter, wrote |-> FALSE, failed |-> TRUE]
            ELSE IF ~writable
            THEN [files |-> s1.files, file |-> s1.file, start |-> s1.start,
                  counter |-> s1.counter, wrote |-> FALSE, failed |-> TRUE]
            ELSE [files |-> WriteFile(s1.files, s1.file, gnss_line),
                  file |-> s1.file, start |-> s1.start, counter |-> s1.counter,
                  wrote |-> TRUE, failed |-> FALSE]

(***************************************************************************)
(* The input of the RTK converter                                          *)
(***************************************************************************)
GoodHead == <<"2025/05/11", "18:22:46.000", "45.123456", "-73.987654", "150.2",
              "1", "9">>

RtkLines == {
    [comment |-> TRUE, fields |-> <<"%", "GPST", "latitude(deg)">>],
    [comment |-> FALSE, fields |-> <<>>],
    [comment |-> FALSE, fields |-> GoodHead \o <<"0.1", "0.1", "0.1", "0.0", "0.0",
                                                 "1.5", "2.5", "3.0">>],
    [comment |-> FALSE, fields |-> GoodHead \o <<"0.1">>],
    [comment |-> FALSE, fields |-> SubSeq(GoodHead, 1, 5)],
    [comment |-> FALSE, fields |-> <<"2025/05/11", "18:22:46.000", "abc",
                                     "-73.987654", "150.2", "1", "9", "0.1">>],
    [comment |-> FALSE, fields |-> <<"2025/13/45", "18:22:46.000", "45.123456",
                                     "-73.987654", "150.2", "1", "9", "0.1">>] }

\* the host is on UTC, or 4 hours west of it
UtcOffsets == {0, -14400}

(***************************************************************************)
(* convert_rtk_to_gnss, lines 157-184: the body of the loop for one line.  *)
(* raised = outfile.write() failed: the IOError leaves the loop.           *)
(***************************************************************************)
\* a faulty loop body: a line that does not parse ends the run
BadRtkBodyAborts(fs, h, line, processed, converted, tz, writeFails) ==
    LET same == [files |-> fs, processed |-> processed, converted |-> converted,
                 raised |-> FALSE]
        parsed == parse_solution_line(line.fields)
        counted == [same EXCEPT !.processed = processed + 1]
    IN IF line.comment THEN same
       ELSE IF Len(line.fields) = 0 THEN same
       ELSE IF ~parsed.ok THEN [counted EXCEPT !.raised = TRUE]
       ELSE LET gnss_line == convert_to_gnss_format(parsed, tz)
            IN IF ~gnss_line.ok THEN [counted EXCEPT !.raised = TRUE]
               ELSE IF writeFails THEN [counted EXCEPT !.raised = TRUE]
               ELSE [files |-> WriteFile(fs, h, gnss_line.text),
                     processed |-> processed + 1, converted |-> converted + 1,
                     raised |-> FALSE]

\* a faulty loop body: a line that does not parse is not counted as processed
BadRtkBodyUncounted(fs, h, line, processed, converted, tz, writeFails) ==
    LET same == [files |-> fs, processed |-> processed, converted |-> converted,
                 raised |-> FALSE]
        parsed == parse_solution_line(line.fields)
        counted == [same EXCEPT !.processed = processed + 1]
    IN IF line.comment THEN same
       ELSE IF Len(line.fields) = 0 THEN same
       ELSE IF ~parsed.ok THEN same
       ELSE LET gnss_line == convert_to_gnss_format(parsed, tz)
            IN IF ~gnss_line.ok THEN counted
               ELSE IF writeFails THEN [counted EXCEPT !.raised = TRUE]
               ELSE [files |-> WriteFile(fs, h, gnss_line.text),
                     processed |-> processed + 1, converted |-> converted + 1,
                     raised |-> FALSE]

\* the loop body of convert_rtk_to_gnss
rtk_body(fs, h, line, processed, converted, tz, writeFails) ==
    LET same == [files |-> fs, processed |-> processed, converted |-> converted,
                 raised |-> FALSE]
        parsed == parse_solution_line(line.fields)
        counted == [same EXCEPT !.processed = processed + 1]
    IN IF line.comment THEN same
       ELSE IF Len(line.fields) = 0 THEN same
       ELSE IF ~parsed.ok THEN counted
       ELSE LET gnss_line == convert_to_gnss_format(parsed, tz)
            IN IF ~gnss_line.ok THEN counted
               ELSE IF writeFails THEN [counted EXCEPT !.raised = TRUE]
               ELSE [files |-> WriteFile(fs, h, gnss_line.text),
                     processed |-> processed + 1, converted |-> converted + 1,
                     raised |-> FALSE]

\* what the environment may do to this record's open() and write()
MayFail(openFails, writeFails) ==
    /\ ~(openFails /\ writeFails)
    /\ (openFails \/ writeFails) => faults < MaxFaults

\* fin / fout before any formatter was called
NoCall == [op |-> "none", timestamp |-> 0, latitude |-> 0, longitude |-> 0,
           speed |-> 0, course |-> 0, status |-> <<>>, fields |-> <<>>]
NoValue == [text |-> <<>>, direction |-> <<>>]

Counted(rec) == IF rec.topic = "/GPSRMC" THEN 1 ELSE 0

Init ==
    /\ mode \in {"chunked", "single", "nmea", "rtk"}
    /\ pc = (IF mode = "rtk" THEN "start" ELSE "main")
    /\ result = "none"
    /\ input = <<>>
    /\ chunk_duration \in (IF mode \in {"chunked", "single"} THEN ChunkDurations
                           ELSE {20})
    /\ utc_offset \in (IF mode = "rtk" THEN UtcOffsets ELSE {0})
    /\ message_count = 0
    /\ processed_count = 0
    /\ current_chunk_start = None
    /\ current_chunk_file = None
    /\ chunk_counter = 0
    /\ output_file = None
    /\ files = <<>>
    /\ lines_processed = 0
    /\ lines_converted = 0
    /\ faults = 0
    /\ sink_failed = FALSE
    /\ output_dir = FALSE
    /\ summary = <<>>
    /\ exit_status = None
    /\ fin = NoCall
    /\ fout = NoValue

(***************************************************************************)
(* main of the three scripts                                               *)
(***************************************************************************)
\* a faulty validation that lets a chunk duration of 0 pass
BadDurationInvalid(d) == d < 0

\* bag_to_gnss.py main: if args.chunk_duration <= 0
chunk_duration_invalid(d) == d <= 0

\* bag_to_gnss.py main, lines 500-503: the value convert_to_gnss() returns
\* is dropped and main returns, so the process ends with status 0
gnss_main_exit(success) == 0

\* bag_to_nmea.py main, lines 349-351: the same with convert_to_nmea()
nmea_main_exit(success) == 0

\* rtk_to_gnss.py main: sys.exit(0) if success, else sys.exit(1)
rtk_main_exit(success) == IF success THEN 0 ELSE 1

main_exit(m, success) ==
    IF m = "rtk" THEN rtk_main_exit(success)
    ELSE IF m = "nmea" THEN nmea_main_exit(success)
    ELSE gnss_main_exit(success)

\* the conversion has returned success to main and the process ends
MainExits(success) == exit_status' = main_exit(mode, success)

\* what main leaves alone before the conversion starts
MainUnchanged ==
    UNCHANGED <<mode, result, input, chunk_duration, utc_offset, message_count,
                processed_count, current_chunk_start, current_chunk_file,
                chunk_counter, output_file, files, lines_processed,
                lines_converted, faults, sink_failed, summary, fin, fout>>

\* main of the bag converters: os.path.exists(args.bag_file) is false
MainMissingInput ==
    /\ mode \in {"chunked", "single", "nmea"} /\ pc = "main"
    /\ pc' = "done" /\ exit_status' = 1
    /\ UNCHANGED output_dir
    /\ MainUnchanged

\* main of bag_to_gnss.py: the bag exists, args.chunk_duration <= 0
MainInvalidChunkDuration ==
    /\ mode \in {"chunked", "single"} /\ pc = "main"
    /\ chunk_duration_invalid(chunk_duration)
    /\ pc' = "done" /\ exit_status' = 1
    /\ UNCHANGED output_dir
    /\ MainUnchanged

\* main of the bag converters past its checks: the constructor (it makes
\* the output directory in chunked mode), then inspect_bag_structure(),
\* which opens the bag or returns False
MainInspect ==
    /\ mode \in {"chunked", "single", "nmea"} /\ pc = "main"
    /\ mode \in {"chunked", "single"} => ~chunk_duration_invalid(chunk_duration)
    /\ output_dir' = (mode = "chunked")
    /\ \E inspected \in BOOLEAN :
         IF inspected
         THEN pc' = "start" /\ UNCHANGED exit_status
         ELSE pc' = "done" /\ exit_status' = 1
    /\ MainUnchanged

\* with Reader(str(self.bag_path)) as reader: the bag opens
ChunkedStart ==
    /\ mode = "chunked" /\ pc = "start"
    /\ pc' = "loop"
    /\ UNCHANGED <<summary, exit_status, output_dir, utc_offset, mode, result, input, chunk_duration, message_count,
                   processed_count, current_chunk_start, current_chunk_file,
                   chunk_counter, output_file, files, lines_processed,
                   lines_converted, faults, sink_failed, fin, fout>>

\* one turn of the loop of _convert_to_gnss_chunked
ChunkedRecord ==
    /\ mode = "chunked" /\ pc = "loop" /\ Len(input) < MaxRecs
    /\ \E rec \in BagRecords, openFails \in BOOLEAN, writeFails \in BOOLEAN :
         LET r == chunked_body(ChunkState, rec, chunk_duration, openFails, writeFails)
         IN /\ MayFail(openFails, writeFails)
            /\ (openFails \/ writeFails) => r.failed
            /\ input' = Append(input, rec)
            /\ message_count' = message_count + Counted(rec)
            /\ processed_count' = processed_count + (IF r.wrote THEN 1 ELSE 0)
            /\ files' = r.files
            /\ current_chunk_file' = r.file
            /\ current_chunk_start' = r.start
            /\ chunk_counter' = r.counter
            /\ faults' = faults + (IF openFails \/ writeFails THEN 1 ELSE 0)
            /\ sink_failed' = (sink_failed \/ r.failed)
    /\ UNCHANGED <<summary, exit_status, output_dir, utc_offset, mode, pc, result, chunk_duration, output_file, lines_processed,
                   lines_converted, fin, fout>>

\* the loop ends: lines 396-411
ChunkedEnd ==
    /\ mode = "chunked" /\ pc = "loop"
    /\ LET c == close_current_chunk(files, current_chunk_file)
       IN files' = c.files /\ current_chunk_file' = c.file
    /\ pc' = "done" /\ result' = "True" /\ MainExits(TRUE)
    /\ summary' = <<message_count, processed_count>>
    /\ UNCHANGED <<output_dir, utc_offset, mode, input, chunk_duration, message_count, processed_count,
                   current_chunk_start, chunk_counter, output_file,
                   lines_processed, lines_converted, faults, sink_failed, fin, fout>>

\* Reader() or reader.messages() raises: the handler of lines 405-409
ChunkedSourceError ==
    /\ mode = "chunked" /\ pc \in {"start", "loop"} /\ faults < MaxFaults
    /\ LET c == close_current_chunk(files, current_chunk_file)
       IN files' = c.files /\ current_chunk_file' = c.file
    /\ pc' = "done" /\ result' = "False" /\ MainExits(FALSE) /\ UNCHANGED summary
    /\ faults' = faults + 1
    /\ UNCHANGED <<output_dir, utc_offset, mode, input, chunk_duration, message_count, processed_count,
                   current_chunk_start, chunk_counter, output_file,
                   lines_processed, lines_converted, sink_failed, fin, fout>>

(***************************************************************************)
(* _convert_to_gnss_single (lines 320-343) and convert_to_nmea (lines      *)
(* 257-279): the body of the loop for one record, writing to output_file.  *)
(* An exception raised by write() is caught at line 341 / 277.             *)
(***************************************************************************)
single_body(fs, h, rec, data, text, writeFails) ==
    IF rec.topic # "/GPSRMC" \/ ~data.parsed
    THEN [files |-> fs, wrote |-> FALSE, failed |-> FALSE]
    ELSE IF writeFails THEN [files |-> fs, wrote |-> FALSE, failed |-> TRUE]
    ELSE [files |-> WriteFile(fs, h, text), wrote |-> TRUE, failed |-> FALSE]

gnss_single_body(fs, h, rec, writeFails) ==
    LET msg == gnss_parse_custom_gps_message(rec.rawdata)
        gnss_line == extract_and_format_gnss_data(msg, rec.timestamp)
    IN single_body(fs, h, rec, msg, gnss_line, writeFails)

nmea_body(fs, h, rec, writeFails) ==
    LET msg == nmea_parse_custom_gps_message(rec.rawdata)
        nmea_sentence == extract_and_format_gps_data(msg, rec.timestamp)
    IN single_body(fs, h, rec, msg, nmea_sentence, writeFails)

\* with Reader(...) as reader: with open(self.output_path, 'w') as output_file:
\* the bag opens; open() of the output succeeds, or fails (line 351 / 286)
OneFileStart ==
    /\ mode \in {"single", "nmea"} /\ pc = "start"
    /\ \E openFails \in BOOLEAN :
         /\ openFails => faults < MaxFaults
         /\ IF openFails
            THEN /\ pc' = "done" /\ result' = "False" /\ MainExits(FALSE) /\ UNCHANGED summary
                 /\ faults' = faults + 1 /\ sink_failed' = TRUE
                 /\ UNCHANGED <<files, output_file>>
            ELSE /\ pc' = "loop"
                 /\ files' = OpenFile(files, IF mode = "single" THEN "out.gnss"
                                             ELSE "out.nmea")
                 /\ output_file' = Len(files) + 1
                 /\ UNCHANGED <<result, faults, sink_failed, summary, exit_status>>
    /\ UNCHANGED <<output_dir, utc_offset, mode, input, chunk_duration, message_count, processed_count,
                   current_chunk_start, current_chunk_file, chunk_counter,
                   lines_processed, lines_converted, fin, fout>>

\* one turn of the loop of _convert_to_gnss_single / convert_to_nmea
OneFileRecord ==
    /\ mode \in {"single", "nmea"} /\ pc = "loop" /\ Len(input) < MaxRecs
    /\ \E rec \in OneFileRecords, writeFails \in BOOLEAN :
         LET r == IF mode = "single"
                  THEN gnss_single_body(files, output_file, rec, writeFails)
                  ELSE nmea_body(files, output_file, rec, writeFails)
         IN /\ writeFails => (faults < MaxFaults /\ r.failed)
            /\ input' = Append(input, rec)
            /\ message_count' = message_count + Counted(rec)
            /\ processed_count' = processed_count + (IF r.wrote THEN 1 ELSE 0)
            /\ files' = r.files
            /\ faults' = faults + (IF writeFails THEN 1 ELSE 0)
            /\ sink_failed' = (sink_failed \/ r.failed)
    /\ UNCHANGED <<summary, exit_status, output_dir, utc_offset, mode, pc, result, chunk_duration, current_chunk_start,
                   current_chunk_file, chunk_counter, output_file,
                   lines_processed, lines_converted, fin, fout>>

\* the loop ends; leaving the with block closes output_file; return True
OneFileEnd ==
    /\ mode \in {"single", "nmea"} /\ pc = "loop"
    /\ files' = CloseFile(files, output_file)
    /\ pc' = "done" /\ result' = "True" /\ MainExits(TRUE)
    /\ summary' = <<message_count, processed_count>>
    /\ UNCHANGED <<output_dir, utc_offset, mode, input, chunk_duration, message_count, processed_count,
                   current_chunk_start, current_chunk_file, chunk_counter,
                   output_file, lines_processed, lines_converted, faults,
                   sink_failed, fin, fout>>

\* Reader() or reader.messages() raises: the with block closes output_file
\* on the way out, the handler of line 351 / 286 returns False
OneFileSourceError ==
    /\ mode \in {"single", "nmea"} /\ pc \in {"start", "loop"} /\ faults < MaxFaults
    /\ files' = CloseFile(files, output_file)
    /\ pc' = "done" /\ result' = "False" /\ MainExits(FALSE) /\ UNCHANGED summary
    /\ faults' = faults + 1
    /\ UNCHANGED <<output_dir, utc_offset, mode, input, chunk_duration, message_count, processed_count,
                   current_chunk_start, current_chunk_file, chunk_counter,
                   output_file, lines_processed, lines_converted, sink_failed,
                   fin, fout>>

\* lines 146-151: the input exists and both files open, or open() raises
RtkStart ==
    /\ mode = "rtk" /\ pc = "start"
    /\ \E openFails \in BOOLEAN :
         /\ openFails => faults < MaxFaults
         /\ IF openFails
            THEN /\ pc' = "done" /\ result' = "False" /\ MainExits(FALSE) /\ UNCHANGED summary
                 /\ faults' = faults + 1 /\ sink_failed' = TRUE
                 /\ UNCHANGED <<files, output_file>>
            ELSE /\ pc' = "loop"
                 /\ files' = OpenFile(files, "out.gnss")
                 /\ output_file' = Len(files) + 1
                 /\ UNCHANGED <<result, faults, sink_failed, summary, exit_status>>
    /\ UNCHANGED <<output_dir, utc_offset, mode, input, chunk_duration, message_count,
                   processed_count, current_chunk_start, current_chunk_file,
                   chunk_counter, lines_processed, lines_converted, fin, fout>>

\* lines 146-148: os.path.exists(input_file) is false
RtkMissingInput ==
    /\ mode = "rtk" /\ pc = "start"
    /\ pc' = "done" /\ result' = "False" /\ MainExits(FALSE) /\ UNCHANGED summary
    /\ UNCHANGED <<output_dir, utc_offset, mode, input, chunk_duration, message_count,
                   processed_count, current_chunk_start, current_chunk_file,
                   chunk_counter, output_file, files, lines_processed,
                   lines_converted, faults, sink_failed, fin, fout>>

\* one turn of the loop of convert_rtk_to_gnss
RtkRecord ==
    /\ mode = "rtk" /\ pc = "loop" /\ Len(input) < MaxLines
    /\ \E line \in RtkLines, writeFails \in BOOLEAN :
         LET r == rtk_body(files, output_file, line, lines_processed,
                           lines_converted, utc_offset, writeFails)
         IN /\ writeFails => (faults < MaxFaults /\ r.raised)
            /\ input' = Append(input, line)
            /\ lines_processed' = r.processed
            /\ lines_converted' = r.converted
            /\ faults' = faults + (IF writeFails THEN 1 ELSE 0)
            /\ sink_failed' = (sink_failed \/ r.raised)
            /\ IF r.raised
               THEN /\ files' = CloseFile(r.files, output_file)
                    /\ pc' = "done" /\ result' = "False" /\ MainExits(FALSE) /\ UNCHANGED summary
               ELSE /\ files' = r.files
                    /\ UNCHANGED <<pc, result, summary, exit_status>>
    /\ UNCHANGED <<output_dir, utc_offset, mode, chunk_duration, message_count,
                   processed_count, current_chunk_start, current_chunk_file,
                   chunk_counter, output_file, fin, fout>>

\* the loop ends: lines 186-191; leaving the with block closes the files
RtkEnd ==
    /\ mode = "rtk" /\ pc = "loop"
    /\ files' = CloseFile(files, output_file)
    /\ pc' = "done" /\ result' = "True" /\ MainExits(TRUE)
    /\ summary' = <<lines_processed, lines_converted>>
    /\ UNCHANGED <<output_dir, utc_offset, mode, input, chunk_duration, message_count,
                   processed_count, current_chunk_start, current_chunk_file,
                   chunk_counter, output_file, lines_processed, lines_converted,
                   faults, sink_failed, fin, fout>>

\* reading infile raises: the with block closes the files, lines 193-198
RtkReadError ==
    /\ mode = "rtk" /\ pc = "loop" /\ faults < MaxFaults
    /\ files' = CloseFile(files, output_file)
    /\ pc' = "done" /\ result' = "False" /\ MainExits(FALSE) /\ UNCHANGED summary
    /\ faults' = faults + 1
    /\ UNCHANGED <<output_dir, utc_offset, mode, input, chunk_duration, message_count,
                   processed_count, current_chunk_start, current_chunk_file,
                   chunk_counter, output_file, lines_processed, lines_converted,
                   sink_failed, fin, fout>>

Next ==
    \/ MainMissingInput \/ MainInvalidChunkDuration \/ MainInspect
    \/ ChunkedStart \/ ChunkedRecord \/ ChunkedEnd \/ ChunkedSourceError
    \/ OneFileStart \/ OneFileRecord \/ OneFileEnd \/ OneFileSourceError
    \/ RtkStart \/ RtkMissingInput \/ RtkRecord \/ RtkEnd \/ RtkReadError

Spec == Init /\ [][Next]_vars

(***************************************************************************)
(* NMEAFormatter called on its own, once in a run: fin is the call, fout   *)
(* what it returns.                                                        *)
(***************************************************************************)
LatDegrees == {0, 45, 89}
LonDegrees == {0, 73, 123, 179}
\* fractions of a degree in 1e-7: .0, .0000001, .123456, .987654, .5,
\* one minute, and the last fractions below a whole degree
Fractions == {0, 1, 1234560, 9876540, 5000000, 166667, 9999990, 9999991,
              9999992, 9999999}
Lats == {sgn * (d * DegUnit + f) : sgn \in {1, -1}, d \in LatDegrees, f \in Fractions}
Lons == {sgn * (d * DegUnit + f) : sgn \in {1, -1}, d \in LonDegrees, f \in Fractions}

\* status texts as code points: "A", "V", "", "A*", U+00E9, U+0100
Statuses == {<<65>>, <<86>>, <<>>, <<65, 42>>, <<233>>, <<256>>}
RmcTimes == {0, Sec(26) + 1001}
RmcLats == {451234560, 459999999, -1}
RmcLons == {-739876540, 1799999999}
RmcCourses == {900, 3599}

InitFmt ==
    /\ mode = "fmt"
    /\ pc = "start"
    /\ result = "none"
    /\ input = <<>>
    /\ chunk_duration = 20
    /\ utc_offset = 0
    /\ message_count = 0
    /\ processed_count = 0
    /\ current_chunk_start = None
    /\ current_chunk_file = None
    /\ chunk_counter = 0
    /\ output_file = None
    /\ files = <<>>
    /\ lines_processed = 0
    /\ lines_converted = 0
    /\ faults = 0
    /\ sink_failed = FALSE
    /\ output_dir = FALSE
    /\ summary = <<>>
    /\ exit_status = None
    /\ fin = NoCall
    /\ fout = NoValue

FmtUnchanged ==
    UNCHANGED <<mode, pc, result, input, chunk_duration, utc_offset, message_count,
                processed_count, current_chunk_start, current_chunk_file,
                chunk_counter, output_file, files, lines_processed,
                lines_converted, faults, sink_failed, output_dir, summary,
                exit_status>>

FormatLatitude ==
    /\ mode = "fmt" /\ fin = NoCall
    /\ \E lat_decimal \in Lats :
         /\ fin' = [NoCall EXCEPT !.op = "format_latitude", !.latitude = lat_decimal]
         /\ fout' = format_latitude(lat_decimal)
    /\ FmtUnchanged

FormatLongitude ==
    /\ mode = "fmt" /\ fin = NoCall
    /\ \E lon_decimal \in Lons :
         /\ fin' = [NoCall EXCEPT !.op = "format_longitude", !.longitude = lon_decimal]
         /\ fout' = format_longitude(lon_decimal)
    /\ FmtUnchanged

CreateRmcSentence ==
    /\ mode = "fmt" /\ fin = NoCall
    /\ \E t \in RmcTimes, la \in RmcLats, lo \in RmcLons, cog \in RmcCourses,
          st \in Statuses :
         /\ fin' = [op |-> "create_rmc_sentence", timestamp |-> t, latitude |-> la,
                    longitude |-> lo, speed |-> 15, course |-> cog, status |-> st,
                    fields |-> <<>>]
         /\ fout' = [text |-> create_rmc_sentence(t, la, lo, 15, cog, st),
                     direction |-> <<>>]
    /\ FmtUnchanged

\* _extract_and_format_gnss_data of bag_to_gnss.py on a decoded message
GnssStatuses == {"A", "V", "", "X", "AA"}
GnssTimes == Stamps \cup {Sec(3661) + 3, Sec(86399) + 1999}

ExtractGnssLine ==
    /\ mode = "fmt" /\ fin = NoCall
    /\ \E t \in GnssTimes, la \in RmcLats, lo \in RmcLons, st \in GnssStatuses :
         LET msg == GpsData(TRUE, st, la, lo, 15, 900)
         IN /\ fin' = [NoCall EXCEPT !.op = "extract_and_format_gnss_data",
                                     !.timestamp = t, !.latitude = la,
                                     !.longitude = lo, !.status = Codes(st)]
            /\ fout' = [text |-> extract_and_format_gnss_data(msg, t),
                        direction |-> <<>>]
    /\ FmtUnchanged

\* the columns sdn sde sdu sdne sdeu sdun age ratio of a solution line
GoodTail == <<"0.1", "0.2", "0.3", "0.4", "0.5", "0.6", "1.5", "2.5">>

\* the lines of RtkLines, data lines at other times of day (08:02:06,
\* 00:00:00.5 and 23:59:59.123456), and lines of 7, 12, 13 and 15 tokens,
\* one with an age that is not a number
SolutionLines ==
    RtkLines \cup
    {[comment |-> FALSE,
      fields |-> <<"2025/05/11", t>> \o SubSeq(GoodHead, 3, 7) \o <<"0.1">>] :
       t \in {"08:02:06.000", "00:00:00.5", "23:59:59.123456"}}
    \cup {[comment |-> FALSE, fields |-> GoodHead \o SubSeq(GoodTail, 1, n)] :
            n \in {0, 5, 6, 8}}
    \cup {[comment |-> FALSE,
           fields |-> GoodHead \o SubSeq(GoodTail, 1, 5) \o <<"n/a">>]}

\* parse_solution_line and convert_to_gnss_format of rtk_to_gnss.py on a data
\* line; the text is "" when either returns None
ConvertSolutionLine ==
    /\ mode = "fmt" /\ fin = NoCall
    /\ \E l \in SolutionLines, tz \in UtcOffsets :
         LET sol == parse_solution_line(l.fields)
             made == IF sol.ok THEN convert_to_gnss_format(sol, tz)
                     ELSE [ok |-> FALSE, text |-> ""]
         IN /\ ~l.comment /\ Len(l.fields) > 0
            /\ fin' = [NoCall EXCEPT !.op = "convert_to_gnss_format",
                                     !.timestamp = tz, !.fields = l.fields]
            /\ fout' = [text |-> made.text, direction |-> <<>>]
    /\ FmtUnchanged

\* messages with every direction indicator on coordinates of either sign
\* and on 0.0
IndicatedMsgs ==
    {[ok |-> TRUE, status |-> "A", lat |-> la, n_indicator |-> n, lon |-> lo,
      e_indicator |-> e, speed |-> 15, course |-> 900] :
       la \in {451234560, 0, -451234560}, lo \in {739876540, 0, -739876540},
       n \in {"", "N", "S"}, e \in {"", "E", "W"}}

\* the call of a parse_custom_gps_message on the fields of rawdata
ParseCall(op, rawdata) ==
    [NoCall EXCEPT !.op = op, !.latitude = rawdata.lat, !.longitude = rawdata.lon,
                   !.status = Codes(rawdata.status),
                   !.fields = <<rawdata.n_indicator, rawdata.e_indicator>>]

\* BagToGNSSConverter.parse_custom_gps_message with default settings; fout
\* is the latitude and the longitude of the dict it returns
GnssParseMessage ==
    /\ mode = "fmt" /\ fin = NoCall
    /\ \E raw \in IndicatedMsgs :
         LET msg == gnss_parse_custom_gps_message(raw)
         IN /\ fin' = ParseCall("BagToGNSSConverter.parse_custom_gps_message", raw)
            /\ fout' = [text |-> <<msg.latitude, msg.longitude>>, direction |-> <<>>]
    /\ FmtUnchanged

\* BagToNMEAConverter.parse_custom_gps_message with default settings
NmeaParseMessage ==
    /\ mode = "fmt" /\ fin = NoCall
    /\ \E raw \in IndicatedMsgs :
         LET msg == nmea_parse_custom_gps_message(raw)
         IN /\ fin' = ParseCall("BagToNMEAConverter.parse_custom_gps_message", raw)
            /\ fout' = [text |-> <<msg.latitude, msg.longitude>>, direction |-> <<>>]
    /\ FmtUnchanged

\* one message on its way through convert_to_nmea: parse_custom_gps_message,
\* then _extract_and_format_gps_data at 5 s; fout.text is the sentence
NmeaSentenceOfMessage ==
    /\ mode = "fmt" /\ fin = NoCall
    /\ \E raw \in IndicatedMsgs :
         LET msg == nmea_parse_custom_gps_message(raw)
         IN /\ fin' = ParseCall("BagToNMEAConverter.convert_to_nmea", raw)
            /\ fout' = [text |-> extract_and_format_gps_data(msg, Sec(5)),
                        direction |-> <<>>]
    /\ FmtUnchanged

\* the message definition: string systemLog, string time, string status,
\* float64 Lat, string N, float64 Lon, string E, float64 spd, float64 cog,
\* float64 mv, string mvE, string mode, string navStates
Schema == <<"string", "string", "string", "float64", "string", "float64", "string", "float64", "float64", "float64", "string", "string", "string">>

\* data[a:b] of Python on a byte sequence, 0 <= a: the slice stops at the end
\* of the data and is empty when b <= a
Slice(data, a, b) == SubSeq(data, a + 1, IF b < Len(data) THEN b ELSE Len(data))

\* struct.unpack('<I', four): the four bytes as a little-endian number
UnpackU32(four) == four[1] + 256 * four[2] + 65536 * four[3] + 16777216 * four[4]

\* bytes.decode('utf-8') accepts the bytes; the buffers here hold ASCII bytes
\* and the byte 0xFF, which no UTF-8 text contains
Utf8Ok(bytes) == \A i \in DOMAIN bytes : bytes[i] < 128

\* read_string(data, offset): ok is FALSE where the code raises
read_string(data, offset) ==
    IF Len(Slice(data, offset, offset + 4)) # 4
    THEN [ok |-> FALSE, value |-> <<>>, offset |-> offset]
    ELSE LET length == UnpackU32(Slice(data, offset, offset + 4))
             string_data == Slice(data, offset + 4, offset + 4 + length - 1)
         IN [ok |-> Utf8Ok(string_data), value |-> string_data,
             offset |-> offset + 4 + length]

\* read_float64(data, offset); the value is kept as its eight bytes
read_float64(data, offset) ==
    IF Len(Slice(data, offset, offset + 8)) # 8
    THEN [ok |-> FALSE, value |-> <<>>, offset |-> offset]
    ELSE [ok |-> TRUE, value |-> Slice(data, offset, offset + 8),
          offset |-> offset + 8]

\* the thirteen reads of parse_custom_gps_message, from field k on; ok is
\* FALSE where the function returns None
RECURSIVE read_fields(_, _, _, _)
read_fields(data, k, offset, values) ==
    IF k > Len(Schema)
    THEN [ok |-> TRUE, values |-> values]
    ELSE LET got == IF Schema[k] = "string" THEN read_string(data, offset)
                    ELSE read_float64(data, offset)
         IN IF got.ok
            THEN read_fields(data, k + 1, got.offset, Append(values, got.value))
            ELSE [ok |-> FALSE, values |-> <<>>]

\* a text field on the wire: length prefix, the bytes, a NUL
WireString(codes) == <<Len(codes) + 1, 0, 0, 0>> \o codes \o <<0>>

\* a float64 field on the wire (0.0)
WireFloat == <<0, 0, 0, 0, 0, 0, 0, 0>>

\* a message with status bytes st and navStates VV
WireMsg(st) ==
    WireString(<<76>>) \o WireString(<<49>>) \o WireString(st) \o WireFloat
    \o WireString(<<78>>) \o WireFloat \o WireString(<<87>>) \o WireFloat
    \o WireFloat \o WireFloat \o WireString(<<69>>) \o WireString(<<65>>)
    \o WireString(<<86, 86>>)

\* a whole message, every buffer that is cut short, one with bytes after
\* the message, one with an empty status and one whose status is not text
Buffers ==
    {SubSeq(WireMsg(<<65>>), 1, n) : n \in 0..Len(WireMsg(<<65>>))}
    \cup {WireMsg(<<65>>) \o <<0, 0>>, WireMsg(<<>>), WireMsg(<<255>>)}
    \cup {SubSeq(WireMsg(<<255>>), 1, n) : n \in 12..16}

\* parse_custom_gps_message of either converter on the bytes of a message;
\* fout.text is the thirteen values read, fout.direction tells a dict from None
DecodeBuffer ==
    /\ mode = "fmt" /\ fin = NoCall
    /\ \E data \in Buffers :
         LET msg == read_fields(data, 1, 0, <<>>)
         IN /\ fin' = [NoCall EXCEPT !.op = "parse_custom_gps_message(bytes)",
                                     !.fields = data]
            /\ fout' = [text |-> msg.values,
                        direction |-> IF msg.ok THEN "dict" ELSE "None"]
    /\ FmtUnchanged

NextFmt ==
    \/ FormatLatitude \/ FormatLongitude \/ CreateRmcSentence
    \/ ExtractGnssLine \/ ConvertSolutionLine
    \/ GnssParseMessage \/ NmeaParseMessage
    \/ DecodeBuffer \/ NmeaSentenceOfMessage

SpecFmt == InitFmt /\ [][NextFmt]_vars

(***************************************************************************)
(* Claims                                                                  *)
(***************************************************************************)
\* the record the step has just consumed
Consumed == input'[Len(input')]

\* a step of a chunked run that consumes a fix, in a run without any sink
\* failure so far
ChunkedFixStep ==
    /\ mode = "chunked" /\ Len(input') = Len(input) + 1 /\ ~sink_failed'
    /\ Consumed.topic = "/GPSRMC"
    /\ gnss_parse_custom_gps_message(Consumed.rawdata).parsed

\* the GNSS line of the fix the step consumed
ConsumedLine ==
    LET fix == gnss_parse_custom_gps_message(Consumed.rawdata)
        T == Consumed.timestamp
    IN extract_and_format_gnss_data(fix, T)

\* the file chunk number k starts as, holding one line
FreshChunk(k, written) ==
    [name |-> chunk_filename(k), lines |-> <<written>>, open |-> TRUE]

C1_Transition ==
    ChunkedFixStep =>
      LET T == Consumed.timestamp
          written == ConsumedLine
      IN IF current_chunk_start = None
         THEN /\ chunk_counter = 0 /\ chunk_counter' = 1
              /\ current_chunk_start' = T
              /\ files'[current_chunk_file'] = FreshChunk(0, written)
         ELSE IF (T - current_chunk_start) > chunk_duration * TicksPerSec
         THEN /\ chunk_counter' = chunk_counter + 1
              /\ current_chunk_start' = T
              /\ current_chunk_file' # current_chunk_file
              /\ ~files'[current_chunk_file].open
              /\ files'[current_chunk_file'] = FreshChunk(chunk_counter, written)
         ELSE /\ chunk_counter' = chunk_counter
              /\ current_chunk_start' = current_chunk_start
              /\ current_chunk_file' = current_chunk_file
              /\ files' = [files EXCEPT ![current_chunk_file].lines =
                                           Append(@, written)]

\* fixes at 0 s, 5 s, 25 s, 26 s
ExampleFixes ==
    [i \in 1..4 |-> [topic |-> "/GPSRMC",
                     timestamp |-> <<Sec(0), Sec(5), Sec(25), Sec(26)>>[i],
                     rawdata |-> RawA]]

\* the GNSS line of the example's fix at t seconds
ExampleLine(t) ==
    LET fix == gnss_parse_custom_gps_message(RawA)
        T == Sec(t)
    IN extract_and_format_gnss_data(fix, T)

C1_Example ==
    (mode = "chunked" /\ chunk_duration = 20 /\ pc = "done" /\ ~sink_failed
       /\ result = "True" /\ input = ExampleFixes)
    => files = << [name |-> "gnss0000.gnss", open |-> FALSE,
                   lines |-> <<ExampleLine(0), ExampleLine(5)>>],
                  [name |-> "gnss0001.gnss", open |-> FALSE,
                   lines |-> <<ExampleLine(25), ExampleLine(26)>>] >>

OpenFiles == {i \in DOMAIN files : files[i].open}

\* C2: when a run has returned, normally or through an error handler, no
\* output file is open; in a chunked run every chunk file other than the
\* current one is closed.
C2_SinksClosed ==
    /\ pc = "done" => OpenFiles = {}
    /\ mode = "chunked" => \A i \in OpenFiles : i = current_chunk_file

\* a chunked run that failed reading the bag after it had opened two chunks
C2_Witness ==
    /\ mode = "chunked" /\ pc = "done" /\ result = "False"
    /\ chunk_counter = 2 /\ Len(files) = 2

\* C3: at most one output file is open in any state, so a chunk file is
\* opened only once the previous one is closed.
C3_OneOpenSink == Cardinality(OpenFiles) <= 1

\* the second chunk is open and the first is closed
C3_Witness ==
    /\ mode = "chunked" /\ pc = "loop" /\ chunk_counter = 2
    /\ OpenFiles = {2}

\* C4: once opening or writing an output sink has failed, the run has ended
\* and reports failure.
C4_SinkFailureFatal == sink_failed => (pc = "done" /\ result = "False")

\* decoding the record the step consumed fails
ConsumedFailsDecode ==
    /\ Len(input') = Len(input) + 1
    /\ \/ /\ mode \in {"chunked", "single"}
          /\ Consumed.topic = "/GPSRMC"
          /\ ~gnss_parse_custom_gps_message(Consumed.rawdata).parsed
       \/ /\ mode = "nmea"
          /\ Consumed.topic = "/GPSRMC"
          /\ ~nmea_parse_custom_gps_message(Consumed.rawdata).parsed
       \/ /\ mode = "rtk"
          /\ ~Consumed.comment /\ Len(Consumed.fields) > 0
          /\ LET sol == parse_solution_line(Consumed.fields)
             IN ~sol.ok \/ ~convert_to_gnss_format(sol, utc_offset).ok

C5_Step ==
    ConsumedFailsDecode =>
      /\ pc = "loop" /\ pc' = "loop" /\ result' = result
      /\ files' = files
      /\ output_file' = output_file
      /\ chunk_counter' = chunk_counter
      /\ current_chunk_start' = current_chunk_start
      /\ current_chunk_file' = current_chunk_file
      /\ processed_count' = processed_count
      /\ lines_converted' = lines_converted

\* C5: in each driver a record whose decode fails writes nothing and leaves
\* the run in its loop with the output files, the chunk index, chunk_start
\* and the open file as they were, so what follows is as if the record had
\* been absent.
C5_DecodeFailureSkipped == [][C5_Step]_vars

\* a fix was written after a record that failed to decode
C5_Witness ==
    /\ mode = "chunked" /\ Len(input) = 2
    /\ input[1].topic = "/GPSRMC" /\ input[1].rawdata = Malformed
    /\ processed_count = 1 /\ Len(files[1].lines) = 1

\* a data line of solution.pos that is skipped: fewer than 8 tokens, a
\* numeric token that does not parse, or a GPST timestamp that does not parse
SkippedLine(l) ==
    /\ ~l.comment /\ Len(l.fields) > 0
    /\ \/ Len(l.fields) < 8
       \/ ~ParseFloat(l.fields[3]).ok \/ ~ParseFloat(l.fields[4]).ok
       \/ ~ParseFloat(l.fields[5]).ok
       \/ ~ParseInt(l.fields[6]).ok \/ ~ParseInt(l.fields[7]).ok
       \/ ~parse_gpst_timestamp(l.fields[1] \o " " \o l.fields[2], utc_offset).ok

SkippedSoFar == Cardinality({i \in DOMAIN input : SkippedLine(input[i])})

\* C6: in an RTK run that no I/O failure has ended, lines_processed minus
\* lines_converted is the number of data lines skipped so far,
\* lines_converted is the number of lines in the output file, and only an
\* I/O failure makes a run that has read a line report failure.
C6_SkipAccounting ==
    mode = "rtk" =>
      /\ (pc = "loop" \/ result = "True") =>
           /\ lines_processed - lines_converted = SkippedSoFar
           /\ lines_converted = Len(files[output_file].lines)
      /\ (result = "False" /\ input # <<>>) => faults > 0

\* a finished run that skipped a 5-token line and converted another line
C6_Witness ==
    /\ mode = "rtk" /\ pc = "done" /\ result = "True"
    /\ \E i \in DOMAIN input : ~input[i].comment /\ Len(input[i].fields) = 5
    /\ lines_converted = 1 /\ lines_processed = 2

\* the call was format_latitude or format_longitude, of the coordinate v
CoordCall == fin.op \in {"format_latitude", "format_longitude"}
CoordValue == IF fin.op = "format_latitude" THEN fin.latitude ELSE fin.longitude
DegreeWidth == IF fin.op = "format_latitude" THEN 2 ELSE 3

\* the last 7 characters of a ddmm.mmmm text: mm.mmmm
MinutesText(text) == SubSeq(text, Len(text) - 6, Len(text))

\* the exact minutes of |v|, in 1e-7 minute
ExactMinutes(v) == (Abs(v) - (Abs(v) \div DegUnit) * DegUnit) * 60

\* C7: the minutes field of a formatted coordinate is never "60.0000": when
\* the minutes round to 60.0000 at 4 decimals the text is degrees + 1
\* followed by "00.0000".
C7_MinuteCarry ==
    CoordCall =>
      /\ MinutesText(fout.text) # Codes("60.0000")
      /\ ExactMinutes(CoordValue) >= 599999500 =>
           fout.text = Codes(ZeroPad(ToString(Abs(CoordValue) \div DegUnit + 1),
                                     DegreeWidth)) \o Codes("00.0000")

\* the index of the last c in s, 0 when there is none
RECURSIVE LastIndex(_, _, _)
LastIndex(s, c, i) ==
    IF i = 0 THEN 0 ELSE IF s[i] = c THEN i ELSE LastIndex(s, c, i - 1)

\* the value of an uppercase hexadecimal digit given by its code, -1 for
\* any other character
HexValue(c) ==
    IF c >= 48 /\ c <= 57 THEN c - 48
    ELSE IF c >= 65 /\ c <= 70 THEN c - 55 ELSE -1

\* C8: the text after the last '*' of a sentence made by create_rmc_sentence
\* is 2 uppercase hexadecimal digits whose value is the XOR of the codes of
\* the characters between the leading '$' and that '*'.
C8_Checksum ==
    fin.op = "create_rmc_sentence" =>
      LET sentence == fout.text
          star == LastIndex(sentence, 42, Len(sentence))
      IN /\ sentence[1] = 36
         /\ star > 1
         /\ Len(sentence) = star + 2
         /\ HexValue(sentence[star + 1]) >= 0
         /\ HexValue(sentence[star + 2]) >= 0
         /\ 16 * HexValue(sentence[star + 1]) + HexValue(sentence[star + 2])
              = XorRange(sentence, 2, star - 1)

\* the number the decimal digits with the codes ds write, -1 when a code is
\* no digit
RECURSIVE Number(_, _)
Number(ds, n) ==
    IF n = 0 THEN 0
    ELSE IF ds[n] < 48 \/ ds[n] > 57 \/ Number(ds, n - 1) < 0 THEN -1
    ELSE 10 * Number(ds, n - 1) + (ds[n] - 48)

\* C9: a formatted coordinate is the degrees of |v| in 2 (latitude) or 3
\* (longitude) digits followed by the minutes (|v| - degrees) x 60 as
\* mm.mmmm, rounded to 4 decimals, with 'N' / 'E' for v >= 0 and 'S' / 'W'
\* otherwise; 45.123456 gives "4507.4074" 'N' and -73.987654 gives
\* "07359.2592" 'W'.
C9_CoordinateFormat ==
    CoordCall =>
      LET v == CoordValue
          w == DegreeWidth
          txt == fout.text
          whole == Number(SubSeq(txt, w + 1, w + 2), 2)
          frac == Number(SubSeq(txt, w + 4, w + 7), 4)
          shown == (whole * 10000 + frac) * 1000
      IN /\ Len(txt) = w + 7
         /\ Number(SubSeq(txt, 1, w), w) = Abs(v) \div DegUnit
         /\ txt[w + 3] = 46
         /\ whole >= 0 /\ frac >= 0
         /\ Abs(shown - ExactMinutes(v)) <= 500
         /\ fout.direction =
              (IF fin.op = "format_latitude"
               THEN (IF v >= 0 THEN Codes("N") ELSE Codes("S"))
               ELSE (IF v >= 0 THEN Codes("E") ELSE Codes("W")))
         /\ (fin.op = "format_latitude" /\ v = 451234560) =>
              txt = Codes("4507.4074")
         /\ (fin.op = "format_longitude" /\ v = -739876540) =>
              txt = Codes("07359.2592")

\* format_longitude(-73.987654) has returned
C9_Witness ==
    /\ fin.op = "format_longitude" /\ fin.longitude = -739876540
    /\ fout = [text |-> Codes("07359.2592"), direction |-> Codes("W")]

\* s.split(" ") from position i on
RECURSIVE SplitFrom(_, _)
SplitFrom(s, i) ==
    LET j == FindChar(s, " ", i)
    IN IF j > Len(s) THEN <<SubSeq(s, i, Len(s))>>
       ELSE <<SubSeq(s, i, j - 1)>> \o SplitFrom(s, j + 1)

\* a GNSS line: 11 fields between single spaces, "nan" in the fields nans
\* and nowhere else, numbers where numbers belong, h:mm:ss in field 9
GnssLineOk(l, nans) ==
    LET f == SplitFrom(l, 1)
    IN /\ Len(f) = 11
       /\ \A i \in 1..11 : f[i] # "" /\ (f[i] = "nan" <=> i \in nans)
       /\ AllDigits(f[1]) /\ AllDigits(f[10]) /\ AllDigits(f[11])
       /\ ParseFloat(f[2]).ok /\ ParseFloat(f[3]).ok
       /\ FindChar(f[9], ":", 1) <= Len(f[9])

\* C10: every line the bag converter or the RTK converter formats has
\* exactly 11 fields separated by single spaces, timestamp_ns first and
\* timestamp_ms last; fields 4 to 8 of a line of the bag converter and
\* fields 5 and 7 of a line of the RTK converter are "nan".
C10_ElevenFields ==
    /\ fin.op = "extract_and_format_gnss_data" => GnssLineOk(fout.text, 4..8)
    /\ (fin.op = "convert_to_gnss_format" /\ fout.text # "") =>
         GnssLineOk(fout.text, {5, 7})

\* the RTK converter has formatted the line of 15 tokens
C10_Witness ==
    /\ fin.op = "convert_to_gnss_format" /\ Len(fin.fields) = 15
    /\ fout.text # ""

\* the fields of the GNSS line a formatter returned
OutFields == SplitFrom(fout.text, 1)

\* C11: the fix_quality (field 10) of a line of the bag converter is "1"
\* when the decoded status is exactly 'A' and "0" for any other status.
C11_QualityMapping ==
    fin.op = "extract_and_format_gnss_data" =>
      OutFields[10] = (IF fin.status = <<65>> THEN "1" ELSE "0")

\* a message with status 'AA' was formatted with quality 0
C11_Witness ==
    /\ fin.op = "extract_and_format_gnss_data" /\ fin.status = <<65, 65>>
    /\ OutFields[10] = "0"

\* C12: with default settings both parse_custom_gps_message return the
\* decoded latitude and longitude with their sign unchanged, whatever the
\* direction indicators are.
C12_SignUnchangedByDefault ==
    fin.op \in {"BagToGNSSConverter.parse_custom_gps_message",
                "BagToNMEAConverter.parse_custom_gps_message"} =>
      fout.text = <<fin.latitude, fin.longitude>>

\* the RTK formatter returned a line for the GPST text of its input
RtkLineMade == fin.op = "convert_to_gnss_format" /\ fout.text # ""
GpstText == fin.fields[1] \o " " \o fin.fields[2]

\* seconds from 1970-01-01 00:00:00 UTC to the calendar instant dt read as UTC
UtcSeconds(dt) ==
    DaysFromCivil(dt.year, dt.month, dt.day) * 86400
    + dt.hour * 3600 + dt.minute * 60 + dt.second

\* the nanoseconds since the epoch of the GPST text read as UTC, as text
UtcNanoseconds(gpst) ==
    LET dt == Strptime(gpst)
    IN ToString(UtcSeconds(dt)) \o ZeroPad(ToString(dt.microsecond), 6) \o "000"

\* C13: timestamp_ns (field 1) of a line of the RTK converter is the epoch
\* value of the GPST calendar instant read as UTC, whatever the time zone of
\* the host; "2025/05/11 18:22:46.000" gives 1746987766000000000.
C13_RtkTimestampUtc ==
    RtkLineMade =>
      /\ OutFields[1] = UtcNanoseconds(GpstText)
      /\ GpstText = "2025/05/11 18:22:46.000" =>
           OutFields[1] = "1746987766000000000"

\* h:mm:ss of a count of seconds since the epoch, the hour without a leading
\* zero
TimeOfDay(secs) ==
    ToString((secs \div 3600) % 24) \o ":"
    \o ZeroPad(ToString((secs \div 60) % 60), 2) \o ":"
    \o ZeroPad(ToString(secs % 60), 2)

\* the whole seconds of a text of nanoseconds
SecondsOfNs(ns) == DigitsVal(SubSeq(ns, 1, Len(ns) - 9), Len(ns) - 9)

\* C14: gps_time (field 9) of a GNSS line of either path is the UTC time of
\* day of the instant timestamp_ns / 1e9 (field 1), written h:mm:ss with the
\* hour without a leading zero.
C14_GpsTime ==
    /\ fin.op = "extract_and_format_gnss_data" =>
         OutFields[9] = TimeOfDay(fin.timestamp \div TicksPerSec)
    /\ RtkLineMade => OutFields[9] = TimeOfDay(SecondsOfNs(OutFields[1]))

\* C15: field 1 of a line of the bag converter is the container timestamp T
\* itself and field 11 is T integer-divided by the nanoseconds of one
\* millisecond.
C15_ContainerTimestamp ==
    fin.op = "extract_and_format_gnss_data" =>
      /\ OutFields[1] = ToString(fin.timestamp)
      /\ OutFields[11] = ToString(fin.timestamp \div TicksPerMs)

\* a record stamped half a millisecond after 25 s was formatted
C15_Witness ==
    /\ fin.op = "extract_and_format_gnss_data" /\ fin.timestamp = Sec(25) + 1
    /\ OutFields[1] = "50001" /\ OutFields[11] = "25000"

\* the lines of all output files, in the order the files were opened
RECURSIVE AllLines(_, _)
AllLines(fs, n) == IF n = 0 THEN <<>> ELSE AllLines(fs, n - 1) \o fs[n].lines

\* the output line of the record the step consumed, in the driver's format
ConsumedText ==
    IF mode = "rtk"
    THEN LET sol == parse_solution_line(Consumed.fields)
             tz == utc_offset
         IN convert_to_gnss_format(sol, tz).text
    ELSE IF mode = "nmea"
    THEN LET fix == nmea_parse_custom_gps_message(Consumed.rawdata)
             T == Consumed.timestamp
         IN extract_and_format_gps_data(fix, T)
    ELSE ConsumedLine

\* the step wrote a line
WroteLine ==
    Len(AllLines(files', Len(files'))) = Len(AllLines(files, Len(files))) + 1

C16_Step ==
    Len(input') = Len(input) + 1 =>
      LET before == AllLines(files, Len(files))
          after == AllLines(files', Len(files'))
          last == Len(files')
      IN /\ after = before \/ WroteLine
         /\ \A i \in DOMAIN files :
              i # last => files'[i].lines = files[i].lines
         /\ WroteLine =>
              /\ after = Append(before, ConsumedText)
              /\ files'[last].open
              /\ files'[last].lines[Len(files'[last].lines)] = ConsumedText

\* fixes at 26 s and then at 5 s
LateFixes ==
    [i \in 1..2 |-> [topic |-> "/GPSRMC", timestamp |-> <<Sec(26), Sec(5)>>[i],
                     rawdata |-> RawA]]

C16_Example ==
    (mode \in {"chunked", "single"} /\ input = LateFixes /\ ~sink_failed)
    => AllLines(files, Len(files)) = <<ExampleLine(26), ExampleLine(5)>>

\* C16: every step that writes appends the line of the record it consumed
\* after all lines written before, in the file opened last, which is open;
\* the lines of every other file stay as they are.  So the output lines are
\* the converted records in input order: a fix at 5 s that arrives after a
\* fix at 26 s is written after it.
C16_InputOrderKept == [][C16_Step]_vars /\ [](C16_Example)

\* the chunked converter wrote a fix at 5 s after a fix at 26 s
C16_Witness ==
    /\ mode = "chunked" /\ input = LateFixes /\ processed_count = 2
    /\ files[1].lines = <<ExampleLine(26), ExampleLine(5)>>

\* the offset behind the thirteen fields of the message in data, read off the
\* length prefixes; one more than the length of data when a prefix is cut
RECURSIVE SchemaEnd(_, _, _)
SchemaEnd(data, k, offset) ==
    IF k > Len(Schema) THEN offset
    ELSE IF Schema[k] = "float64" THEN SchemaEnd(data, k + 1, offset + 8)
    ELSE IF offset + 4 > Len(data) THEN Len(data) + 1
    ELSE SchemaEnd(data, k + 1,
                   offset + 4 + UnpackU32(SubSeq(data, offset + 1, offset + 4)))

\* the buffer of the call ends before the thirteen fields do
TooShort == SchemaEnd(fin.fields, 1, 0) > Len(fin.fields)

\* some byte of the buffer of the call is not text
NotText == \E i \in DOMAIN fin.fields : fin.fields[i] >= 128

\* C17: decoding fails (None) for every buffer that is shorter than the
\* thirteen fields need, a buffer that ends inside the bytes of the last text
\* field included, and for a buffer whose text bytes are not valid text.
C17_ShortBufferFails ==
    (fin.op = "parse_custom_gps_message(bytes)" /\ (TooShort \/ NotText))
    => fout.direction = "None"

\* C18: a process that has ended has status 0 exactly when its conversion
\* returned success; it has a non-zero status when main turned the run down
\* (input missing, chunk duration not positive, bag not opened) and when the
\* conversion returned failure.  Skipped records do not change the status.
C18_ExitStatus ==
    pc = "done" =>
      IF result = "True" THEN exit_status = 0 ELSE exit_status \notin {0, None}

\* C19: a run of bag_to_gnss.py with a chunk duration <= 0 never leaves main:
\* no record is read, no output directory and no file is made, no chunk is
\* opened, the conversion is not called, and the process ends with status 1.
C19_ChunkDurationValidated ==
    (mode \in {"chunked", "single"} /\ chunk_duration <= 0) =>
      /\ pc \in {"main", "done"}
      /\ result = "none"
      /\ input = <<>> /\ message_count = 0
      /\ ~output_dir /\ files = <<>>
      /\ current_chunk_file = None /\ chunk_counter = 0
      /\ pc = "done" => exit_status = 1

\* a chunked run with chunk duration 0 was turned down
C19_Witness ==
    /\ mode = "chunked" /\ chunk_duration = 0
    /\ pc = "done" /\ exit_status = 1 /\ ~output_dir

\* C20: when a conversion has ended, by reaching the end of its input or by
\* a fatal error on the way, the totals (records seen, records converted)
\* have been printed.  A run that failed counts from its first record on.
C20_SummaryEmitted ==
    (pc = "done" /\ (result = "True" \/ (result = "False" /\ Len(input) > 0))) =>
      summary = (IF mode = "rtk" THEN <<lines_processed, lines_converted>>
                 ELSE <<message_count, processed_count>>)

\* the record is a GPS message that decodes
Decodes(rec) == rec.topic = "/GPSRMC" /\ rec.rawdata.ok

\* the records read so far that decode, in input order
DecodedInput == SelectSeq(input, Decodes)

\* C21: in a run of the binary GNSS path without a sink failure the k-th
\* output line belongs to the k-th record that decodes, and two records with
\* the same message and the same container timestamp have the same line,
\* whatever was read before them and whichever chunk they went to.
C21_Deterministic ==
    (mode \in {"chunked", "single"} /\ ~sink_failed) =>
      LET written == AllLines(files, Len(files))
      IN /\ Len(written) = Len(DecodedInput)
         /\ \A i, j \in DOMAIN DecodedInput :
              DecodedInput[i] = DecodedInput[j] => written[i] = written[j]

\* the fix at 0 s was read twice, first into chunk 0 and then, after the
\* fix at 25 s had opened chunk 1, into chunk 1, with the same line
C21_Witness ==
    /\ mode = "chunked" /\ ~sink_failed /\ Len(input) = 3
    /\ input[1] = input[3] /\ input[1].timestamp = Sec(0)
    /\ input[2].timestamp = Sec(25) /\ Decodes(input[1]) /\ Decodes(input[2])
    /\ Len(files) = 2 /\ Len(files[2].lines) = 2
    /\ files[1].lines[1] = files[2].lines[2]

\* gnssNNNN.gnss for an index below 10000
PaddedName(n) ==
    "gnss" \o (IF n < 10 THEN "000" ELSE IF n < 100 THEN "00"
               ELSE IF n < 1000 THEN "0" ELSE "") \o ToString(n) \o ".gnss"

\* C22: in a chunked run the i-th chunk file opened is named gnssNNNN.gnss
\* with NNNN = i - 1 on four digits, so the indices are 0, 1, 2, ... without
\* a gap or a repeat, and chunk_counter, the number printed at the end, is
\* the number of chunk files created.
C22_ChunkNames ==
    mode = "chunked" =>
      /\ \A i \in DOMAIN files : files[i].name = PaddedName(i - 1)
      /\ chunk_counter = Len(files)

\* a chunked run ended with gnss0000.gnss and gnss0001.gnss, one open() or
\* write() having failed on the way
C22_Witness ==
    /\ mode = "chunked" /\ pc = "done" /\ result = "True" /\ faults = 1
    /\ sink_failed /\ chunk_counter = 2
    /\ files[1].name = "gnss0000.gnss" /\ files[2].name = "gnss0001.gnss"

ChunkedWrote ==
    /\ mode = "chunked" /\ Len(input') = Len(input) + 1
    /\ processed_count' = processed_count + 1

C24_Step ==
    ChunkedWrote =>
      LET sinceStart == Consumed.timestamp - current_chunk_start'
      IN 0 <= sinceStart /\ sinceStart <= chunk_duration * TicksPerSec

\* C24: every fix written into a chunk has a timestamp T with
\* 0 <= T - chunk_start <= chunk_duration, where chunk_start is the timestamp
\* of the fix that opened the chunk, in whatever order the timestamps come.
C24_ChunkWindow == [][C24_Step]_vars

\* the text starts with the number n and a space
StartsWith(text, n) ==
    LET head == ToString(n) \o " "
    IN Len(text) >= Len(head) /\ SubSeq(text, 1, Len(head)) = head

\* C25: in a chunked run every chunk file that was opened holds the line of
\* the fix it was opened for: no chunk file has zero lines, and the first
\* line of the current chunk carries the timestamp chunk_start.
C25_OpenedWithItsFix ==
    mode = "chunked" =>
      \A i \in DOMAIN files :
        /\ files[i].lines # <<>>
        /\ i = current_chunk_file =>
             StartsWith(files[i].lines[1], current_chunk_start)

\* the cursor at which field k of the message in data starts: 0 for the
\* first field, behind the previous field for the others
RECURSIVE CursorOf(_, _)
CursorOf(data, k) ==
    IF k = 1 THEN 0
    ELSE LET c == CursorOf(data, k - 1)
         IN IF Schema[k - 1] = "float64" THEN c + 8
            ELSE c + 4 + UnpackU32(SubSeq(data, c + 1, c + 4))

\* the n bytes of data that start at offset c; fewer where data ends before
BytesAt(data, c, n) ==
    [i \in 1..(IF n < 0 THEN 0 ELSE n) |->
       IF c + i <= Len(data) THEN data[c + i] ELSE -1]

\* C26: a decoded message holds 13 values in the order text, text, text,
\* float64, text, float64, text, float64, float64, float64, text, text,
\* text; a text value is the L - 1 bytes behind the 4-byte little-endian
\* length L at its cursor, a float64 the 8 bytes at its cursor, and every
\* cursor is where the field before ended.
C26_CursorDecoding ==
    (fin.op = "parse_custom_gps_message(bytes)" /\ fout.direction = "dict") =>
      /\ Len(fout.text) = 13
      /\ \A k \in 1..13 :
           LET c == CursorOf(fin.fields, k)
           IN fout.text[k] =
                (IF k \in {4, 6, 8, 9, 10} THEN BytesAt(fin.fields, c, 8)
                 ELSE BytesAt(fin.fields, c + 4,
                              UnpackU32(SubSeq(fin.fields, c + 1, c + 4)) - 1))

\* _convert_to_gnss_single on the first n records of recs, nothing failing:
\* the output file and the two counters afterwards
RECURSIVE SingleRun(_, _)
SingleRun(recs, n) ==
    IF n = 0
    THEN [files |-> OpenFile(<<>>, "out.gnss"), seen |-> 0, done |-> 0]
    ELSE LET before == SingleRun(recs, n - 1)
             turn == gnss_single_body(before.files, 1, recs[n], FALSE)
         IN [files |-> turn.files, seen |-> before.seen + Counted(recs[n]),
             done |-> before.done + (IF turn.wrote THEN 1 ELSE 0)]

\* C27: when a chunked run has ended without an I/O failure, its chunk files
\* in index order, put one after the other, hold the lines the single-file
\* conversion writes for the same records in the same order, and
\* message_count and processed_count are those of the single-file conversion.
C27_ChunkedEqualsSingle ==
    (mode = "chunked" /\ pc = "done" /\ result = "True" /\ ~sink_failed) =>
      LET one == SingleRun(input, Len(input))
      IN /\ AllLines(files, Len(files)) = one.files[1].lines
         /\ message_count = one.seen
         /\ processed_count = one.done

\* a chunked run over four records, one of which does not decode, ended with
\* two chunk files and three lines
C27_Witness ==
    /\ mode = "chunked" /\ pc = "done" /\ result = "True" /\ ~sink_failed
    /\ Len(input) = 4 /\ Len(files) = 2 /\ message_count = 4
    /\ processed_count = 3 /\ Len(AllLines(files, Len(files))) = 3

\* the positions of the commas of a sentence
Commas(codes) == {i \in DOMAIN codes : codes[i] = 44}

\* the k-th comma-separated field of a sentence, k >= 2
CommaField(codes, k) ==
    LET from == CHOOSE p \in Commas(codes) :
                  Cardinality({q \in Commas(codes) : q < p}) = k - 2
        upto == CHOOSE p \in Commas(codes) :
                  Cardinality({q \in Commas(codes) : q < p}) = k - 1
    IN SubSeq(codes, from + 1, upto - 1)

\* C28: in the sentence the NMEA converter makes of a message, the latitude
\* direction (field 5) is S when the message's n_indicator is 'S' and the
\* longitude direction (field 7) is W when its e_indicator is 'W', whether
\* the latitude / longitude stored in the message is negative, zero or
\* positive.
C28_HemisphereFollowsIndicator ==
    fin.op = "BagToNMEAConverter.convert_to_nmea" =>
      /\ fin.fields[1] = "S" => CommaField(fout.text, 5) = <<83>>
      /\ fin.fields[2] = "W" => CommaField(fout.text, 7) = <<87>>

====
